---- MODULE Spec2Model ----
(***************************************************************************)
(* PyCOOL model files models/chaotic.py and models/oscillon.py.            *)
(*                                                                         *)
(* Each file defines a class Model whose __init__ is a straight line of    *)
(* attribute assignments followed by one `if self.zetaQ == True:` block.   *)
(* The model executes __init__ one statement at a time: `self` is the      *)
(* instance dictionary (attribute name -> value, an attribute is present   *)
(* only once it has been assigned) and `pc` is the index of the next       *)
(* statement.  The class docstring says "Change these values for different *)
(* models": the literals of a file are its configuration, so a statement   *)
(* may be run with another literal than the shipped one.                   *)
(*                                                                         *)
(* Python floats are decimal floating point numbers [m, e] = m * 10^e      *)
(* whose significand keeps as many digits as fit a 32-bit integer.         *)
(***************************************************************************)
EXTENDS Integers, Sequences, FiniteSets, TLC

VARIABLES preset, pc, self, edits, muts

vars == <<preset, pc, self, edits, muts>>

\* At most MaxEdits literals of a model file differ from the shipped ones.
MaxEdits == 2
\* At most MaxMutations attribute assignments are made on a built Model.
MaxMutations == 1

Presets == {"chaotic", "oscillon"}

(***************************************************************************)
(* Float arithmetic                                                        *)
(***************************************************************************)
\* largest integer of the model checker: 2^31 - 1
MaxInt == 2 * (2^30 - 1) + 1

Abs(x) == IF x < 0 THEN 0 - x ELSE x
Sgn(x) == IF x < 0 THEN 0 - 1 ELSE 1

RECURSIVE NormM(_, _)
NormM(x, e) ==
    IF x = 0 THEN [m |-> 0, e |-> 0]
    ELSE IF x % 10 = 0 THEN NormM(x \div 10, e + 1)
    ELSE [m |-> x, e |-> e]

\* the float m * 10^e, in canonical form
F(m, e) == LET r == NormM(Abs(m), e) IN [m |-> Sgn(m) * r.m, e |-> r.e]

RECURSIVE MulM(_, _, _)
MulM(x, y, e) ==
    IF x = 0 \/ y = 0 THEN [m |-> 0, e |-> 0]
    ELSE IF x <= MaxInt \div y THEN NormM(x * y, e)
    ELSE IF x >= y THEN MulM(x \div 10, y, e + 1)
    ELSE MulM(x, y \div 10, e + 1)

Mul(a, b) ==
    LET r == MulM(Abs(a.m), Abs(b.m), a.e + b.e)
    IN  [m |-> Sgn(a.m) * Sgn(b.m) * r.m, e |-> r.e]

RECURSIVE DivM(_, _, _)
DivM(x, y, e) ==
    IF x % y = 0 THEN NormM(x \div y, e)
    ELSE IF x <= MaxInt \div 10 THEN DivM(x * 10, y, e - 1)
    ELSE IF y >= 10^5 THEN DivM(x, y \div 10, e - 1)
    ELSE NormM(x \div y, e)

\* a / b for b # 0
Div(a, b) ==
    LET r == DivM(Abs(a.m), Abs(b.m), a.e - b.e)
    IN  [m |-> Sgn(a.m) * Sgn(b.m) * r.m, e |-> r.e]

RECURSIVE Pow(_, _)
Pow(a, k) == IF k = 0 THEN F(1, 0) ELSE Mul(a, Pow(a, k - 1))

RECURSIVE ISqrt(_, _, _)
ISqrt(x, lo, hi) ==
    IF lo = hi THEN lo
    ELSE LET mid == (lo + hi + 1) \div 2
         IN  IF mid <= x \div mid THEN ISqrt(x, mid, hi) ELSE ISqrt(x, lo, mid - 1)

RECURSIVE Widen(_, _)
Widen(x, e) ==
    IF x # 0 /\ x <= MaxInt \div 10 THEN Widen(x * 10, e - 1)
    ELSE [m |-> x, e |-> e]

\* np.sqrt(a) for a >= 0
Sqrt(a) ==
    LET w == Widen(a.m, a.e)
        v == IF w.e % 2 = 0 THEN w ELSE [m |-> w.m \div 10, e |-> w.e + 1]
    IN  F(ISqrt(v.m, 0, 46340), v.e \div 2)

Positive(a) == a.m > 0

\* np.pi
Pi == F(314159265, 0 - 8)

(***************************************************************************)
(* Potential strings.  A string such as "0.5*C1*f1**2" is the sequence of  *)
(* its tokens; C(i) is the coefficient placeholder Ci, Fld(i) the field    *)
(* placeholder fi, T(s) any other piece of text.                           *)
(***************************************************************************)
C(i) == [kind |-> "C", idx |-> i, text |-> ""]
Fld(i) == [kind |-> "f", idx |-> i, text |-> ""]
T(s) == [kind |-> "text", idx |-> 0, text |-> s]

Range(s) == {s[i] : i \in DOMAIN s}

\* indices of the placeholders of one kind ("C" or "f") in an expression
Placeholders(expr, k) == {t.idx : t \in {u \in Range(expr) : u.kind = k}}

\* ... in a list of expressions
ListPlaceholders(list, k) == UNION {Placeholders(list[i], k) : i \in DOMAIN list}

(***************************************************************************)
(* The statements of Model.__init__                                        *)
(***************************************************************************)
\* self.<target> = <expression reading self.<reads>>
S(line, target, reads) == [kind |-> "assign", line |-> line, target |-> target, reads |-> reads]
\* if self.zetaQ == True:
If(line) == [kind |-> "if", line |-> line, target |-> "", reads |-> {"zetaQ"}]
\* self.<target> = <literal>, inside the if block
Th(line, target) == [kind |-> "then", line |-> line, target |-> target, reads |-> {}]

ChaoticProg ==
    << S(15, "model_name", {}), S(20, "mpl", {}), S(21, "MPl", {"mpl"}),
       S(24, "m", {"mpl"}),
       S(27, "m2f1", {"m"}), S(28, "m2f2", {}), S(29, "m2_fields", {"m2f1", "m2f2"}),
       S(32, "g2", {"m"}),
       S(36, "f10", {}), S(37, "f20", {"mpl"}),
       S(39, "df1_dt0", {"m"}), S(40, "df2_dt0", {}),
       S(42, "fields0", {"f10", "f20"}), S(43, "pis0", {"df1_dt0", "df2_dt0"}),
       S(45, "q", {"g2", "f10", "m2f1"}),
       S(50, "V_list", {}), S(53, "V_int", {}), S(56, "tmp_var", {}),
       S(60, "C_coeff", {"m2f1", "m2f2", "g2"}),
       S(63, "D_coeff", {}), S(68, "power_list", {}),
       S(71, "rho_r0", {}), S(72, "rho_m0", {}),
       S(75, "dtau", {"m"}), S(78, "dtau_hom", {"m"}), S(82, "adaptQ", {}),
       S(85, "L", {"m"}), S(88, "n", {}), S(91, "a_in", {}), S(94, "a_limit", {}),
       S(97, "t_in", {}), S(98, "t_fin", {"m"}), S(99, "t_fin_hom", {"m"}),
       S(102, "lin_evo", {}), S(105, "homogenQ", {}), S(108, "evoQ", {}),
       S(112, "zetaQ", {}), S(115, "gwsQ", {}), S(118, "H_ref", {}),
       S(121, "sim_num", {}), S(124, "saveQ", {}),
       S(127, "flush_freq", {}), S(128, "flush_freq_hom", {}),
       S(131, "superfolderQ", {}), S(134, "superfolder", {}), S(138, "scale", {}),
       S(142, "fieldsQ", {}), S(145, "discQ", {}), S(148, "spectQ", {}),
       S(160, "spect_gw_m", {}), S(163, "distQ", {}), S(166, "statsQ", {}),
       S(170, "field_rho", {}), S(174, "field_lpQ", {}), S(177, "deSitterQ", {}),
       S(181, "testQ", {}), S(185, "m2_effQ", {}), S(188, "csvQ", {}),
       S(193, "max_reg", {}),
       If(197),
       Th(198, "evoQ"), Th(199, "spectQ"), Th(200, "distQ"), Th(201, "statsQ"),
       Th(202, "fieldsQ"), Th(203, "field_rho"), Th(204, "field_lpQ"),
       Th(205, "testQ"), Th(206, "m2_effQ"), Th(207, "flush_freq"),
       Th(208, "flush_freq_hom"), Th(209, "superfolderQ"), Th(210, "saveQ") >>

OscillonProg ==
    << S(15, "model_name", {}), S(20, "mpl", {}), S(21, "MPl", {"mpl"}),
       S(24, "m", {"mpl"}),
       S(27, "m2f1", {"m"}), S(28, "m2f2", {}), S(29, "m2_fields", {"m2f1", "m2f2"}),
       S(32, "lamb", {}), S(33, "g2", {"lamb"}),
       S(37, "f10", {"lamb", "g2", "m"}), S(38, "df1_dt0", {"m"}),
       S(39, "fields0", {"f10"}), S(40, "pis0", {"df1_dt0"}),
       S(45, "V_list", {}), S(48, "V_int", {}), S(51, "tmp_var", {}),
       S(55, "C_coeff", {"m2f1", "lamb", "g2", "m"}),
       S(58, "D_coeff", {}), S(63, "power_list", {}),
       S(66, "rho_r0", {}), S(67, "rho_m0", {}),
       S(70, "dtau", {"m"}), S(73, "dtau_hom", {"m"}), S(77, "adaptQ", {}),
       S(80, "L", {"m"}), S(83, "n", {}), S(86, "a_in", {}), S(89, "a_limit", {}),
       S(92, "t_in", {}), S(93, "t_fin", {"m"}), S(94, "t_fin_hom", {"m"}),
       S(97, "lin_evo", {}), S(100, "homogenQ", {}), S(103, "evoQ", {}),
       S(106, "gwsQ", {}), S(110, "zetaQ", {}), S(113, "H_ref", {}),
       S(116, "sim_num", {}),
       S(119, "flush_freq", {}), S(120, "flush_freq_hom", {}), S(123, "saveQ", {}),
       S(126, "superfolderQ", {}), S(129, "superfolder", {}), S(133, "scale", {}),
       S(137, "fieldsQ", {}), S(140, "discQ", {}), S(143, "spectQ", {}),
       S(149, "spect_gw_m", {}), S(157, "distQ", {}), S(160, "statsQ", {}),
       S(164, "field_rho", {}), S(168, "field_lpQ", {}), S(171, "deSitterQ", {}),
       S(175, "testQ", {}), S(179, "m2_effQ", {}), S(182, "csvQ", {}),
       S(187, "max_reg", {}),
       If(192),
       Th(193, "evoQ"), Th(194, "spectQ"), Th(195, "distQ"), Th(196, "statsQ"),
       Th(197, "fieldsQ"), Th(198, "field_rho"), Th(199, "field_lpQ"),
       Th(200, "testQ"), Th(201, "m2_effQ"), Th(202, "flush_freq"),
       Th(203, "superfolderQ"), Th(204, "saveQ") >>

\* chaotic.py with the q statement (line 45) and the C_coeff statement
\* (line 60) exchanged
ProgCoeffBeforeQ(p) ==
    IF p = "chaotic"
    THEN [i \in DOMAIN ChaoticProg |->
            IF ChaoticProg[i].target = "q" THEN S(45, "C_coeff", {"m2f1", "m2f2", "g2"})
            ELSE IF ChaoticProg[i].target = "C_coeff" THEN S(60, "q", {"g2", "f10", "m2f1"})
            ELSE ChaoticProg[i]]
    ELSE OscillonProg

Prog(p) == IF p = "chaotic" THEN ChaoticProg ELSE OscillonProg

\* pc once __init__ has returned
Done(p) == Len(Prog(p)) + 1

\* index of the `if self.zetaQ == True:` statement
IfIndex(p) == CHOOSE i \in DOMAIN Prog(p) : Prog(p)[i].kind = "if"

(***************************************************************************)
(* The right-hand sides                                                    *)
(***************************************************************************)
Neg(a) == [m |-> 0 - a.m, e |-> a.e]

\* the boolean attributes
Flags ==
    {"adaptQ", "lin_evo", "homogenQ", "evoQ", "zetaQ", "gwsQ", "saveQ",
     "superfolderQ", "scale", "fieldsQ", "spectQ", "distQ", "statsQ",
     "field_rho", "field_lpQ", "deSitterQ", "testQ", "m2_effQ", "csvQ"}

\* the flags whose shipped literal is True
TrueFlags(p) ==
    IF p = "chaotic"
    THEN {"adaptQ", "evoQ", "gwsQ", "saveQ", "fieldsQ", "spectQ", "distQ",
          "statsQ", "field_rho", "deSitterQ", "m2_effQ", "csvQ"}
    ELSE {"evoQ", "saveQ", "fieldsQ", "spectQ", "distQ", "statsQ",
          "field_rho", "csvQ"}

\* flush_freq and flush_freq_hom are counted in units of 128 steps
\* (2*128, 128*8, 4*1024, 128*20 and 256*120*100000 are all multiples of it,
\* and the last one is larger than MaxInt)
FlushUnit == 128

\* lattice sizes a model file is run with
LatticeSizes == {64, 100, 128}

\* the literal of a statement as shipped (0: the statement has no literal
\* that is varied)
Shipped(p, t) ==
    IF t \in Flags THEN t \in TrueFlags(p)
    ELSE IF t = "n" THEN (IF p = "chaotic" THEN 64 ELSE 128)
    ELSE IF t = "dtau" THEN (IF p = "chaotic" THEN F(2, 0) ELSE F(5, 0 - 3))
    ELSE IF t = "dtau_hom" THEN F(1, 0)
    ELSE IF t = "flush_freq"
         THEN (IF p = "chaotic" THEN (2 * 128) \div FlushUnit ELSE (4 * 1024) \div FlushUnit)
    ELSE IF t = "flush_freq_hom"
         THEN (IF p = "chaotic" THEN (128 * 8) \div FlushUnit ELSE (128 * 20) \div FlushUnit)
    ELSE 0

\* the literals a statement is run with
Alternatives(p, t) ==
    IF t \in Flags THEN BOOLEAN
    ELSE IF t = "n" THEN LatticeSizes
    ELSE IF t \in {"dtau", "dtau_hom"}
         THEN {Shipped(p, t), F(0, 0), Neg(Shipped(p, t))}
    ELSE IF t = "flush_freq"
         THEN {(2 * 128) \div FlushUnit, (4 * 1024) \div FlushUnit}
    ELSE IF t = "flush_freq_hom"
         THEN {(128 * 8) \div FlushUnit, (128 * 20) \div FlushUnit}
    ELSE {0}

\* self.V_list
V_list(p) ==
    IF p = "chaotic"
    THEN << <<T("0.5*"), C(1), T("*"), Fld(1), T("**2")>>,
            <<T("0.5*"), C(2), T("*"), Fld(2), T("**2")>> >>
    ELSE << <<T("0.5*"), C(1), T("*"), Fld(1), T("**2")>> >>

\* V_int whose oscillon terms both use C2
V_intSameSlot(p) ==
    IF p = "chaotic"
    THEN << <<T("0.5*"), C(3), T("*"), Fld(1), T("**2*"), Fld(2), T("**2")>> >>
    ELSE << <<T("(-0.25*"), C(2), T("*"), Fld(1), T("**4)")>>,
            <<T("0.16666666666666666*"), C(2), T("*"), Fld(1), T("**6")>> >>

\* self.V_int
V_int(p) ==
    IF p = "chaotic"
    THEN << <<T("0.5*"), C(3), T("*"), Fld(1), T("**2*"), Fld(2), T("**2")>> >>
    ELSE << <<T("(-0.25*"), C(2), T("*"), Fld(1), T("**4)")>>,
            <<T("0.16666666666666666*"), C(3), T("*"), Fld(1), T("**6")>> >>

\* self.m2_fields
M2_fields(p, s) == <<s.m2f1, s.m2f2>>

\* self.fields0 and self.pis0
Fields0(p, s) == IF p = "chaotic" THEN <<s.f10, s.f20>> ELSE <<s.f10>>
Pis0(p, s) == IF p = "chaotic" THEN <<s.df1_dt0, s.df2_dt0>> ELSE <<s.df1_dt0>>

\* q without the factor 4
ResonanceNoFactor(s) == Div(Mul(s.g2, Pow(s.f10, 2)), s.m2f1)

\* self.q (chaotic.py only)
Resonance(s) == Div(Mul(s.g2, Pow(s.f10, 2)), Mul(F(4, 0), s.m2f1))

\* C_coeff without its last entry
C_coeffShort(p, s) ==
    IF p = "chaotic"
    THEN <<s.m2f1, s.m2f2>>
    ELSE <<s.m2f1, s.lamb>>

\* self.C_coeff
C_coeff(p, s) ==
    IF p = "chaotic"
    THEN <<s.m2f1, s.m2f2, s.g2>>
    ELSE <<s.m2f1, s.lamb, Div(s.g2, Pow(s.m, 2))>>

\* the value of statement `self.t = ...` run on instance dictionary s with
\* literal c
Value(p, t, s, c) ==
    CASE t = "model_name" -> IF p = "chaotic" THEN "chaotic inflation" ELSE "oscillon"
      [] t = "mpl" -> F(1, 0)
      [] t = "MPl" -> Mul(Sqrt(Mul(F(8, 0), Pi)), s.mpl)
      [] t = "m" -> IF p = "chaotic" THEN Mul(F(1, 0 - 6), s.mpl)
                    ELSE Mul(F(5, 0 - 6), s.mpl)
      [] t = "m2f1" -> Pow(s.m, 2)
      [] t = "m2f2" -> F(0, 0)
      [] t = "m2_fields" -> M2_fields(p, s)
      [] t = "lamb" -> F(28125, 0 - 10)
      [] t = "g2" -> IF p = "chaotic" THEN Mul(F(1, 4), Pow(s.m, 2))
                     ELSE Div(Pow(s.lamb, 2), F(1, 0 - 1))
      [] t = "f10" -> IF p = "chaotic" THEN F(1009343038, 0 - 9)
                      ELSE Mul(Sqrt(Div(Mul(F(3, 0), s.lamb), Mul(F(5, 0), s.g2))), s.m)
      [] t = "f20" -> Mul(F(1, 0 - 16), s.mpl)
      [] t = "df1_dt0" -> IF p = "chaotic" THEN Mul(Neg(F(713713307, 0 - 9)), s.m)
                          ELSE Mul(F(1, 0 - 16), s.m)
      [] t = "df2_dt0" -> F(1, 0 - 20)
      [] t = "fields0" -> Fields0(p, s)
      [] t = "pis0" -> Pis0(p, s)
      [] t = "q" -> Resonance(s)
      [] t = "V_list" -> V_list(p)
      [] t = "V_int" -> V_int(p)
      [] t \in {"tmp_var", "D_coeff", "power_list"} -> <<>>
      [] t = "C_coeff" -> C_coeff(p, s)
      [] t \in {"rho_r0", "rho_m0", "t_in"} -> F(0, 0)
      [] t = "dtau" -> IF p = "chaotic" THEN Div(Mul(c, F(1, 0)), Mul(F(1024, 0), s.m))
                       ELSE Div(c, s.m)
      [] t = "dtau_hom" -> Div(c, Mul(F(10000, 0), s.m))
      [] t = "L" -> IF p = "chaotic" THEN Div(F(5, 0), s.m) ELSE Div(F(400, 0), s.m)
      [] t = "n" -> c
      [] t = "a_in" -> F(1, 0)
      [] t = "a_limit" -> 2
      [] t \in {"t_fin", "t_fin_hom"} ->
            IF p = "chaotic" THEN Div(F(256, 0), s.m) ELSE Div(F(5000, 0), s.m)
      [] t \in Flags -> c
      [] t = "H_ref" -> F(1, 0 - 12)
      [] t = "sim_num" -> 1
      [] t \in {"flush_freq", "flush_freq_hom"} -> c
      [] t = "superfolder" -> IF p = "chaotic" THEN "zeta_run_3" ELSE "zeta_run_1"
      [] t = "discQ" -> "defrost"
      [] t = "spect_gw_m" -> "std"
      [] t = "max_reg" -> "None"

\* a block that sets testQ True
NormValueTestQ(p, t) ==
    CASE t \in {"evoQ", "spectQ", "distQ", "statsQ", "fieldsQ", "field_rho",
                "field_lpQ", "m2_effQ", "saveQ"} -> FALSE
      [] t \in {"superfolderQ", "testQ"} -> TRUE
      [] t = "flush_freq" -> (256 \div FlushUnit) * 120 * 100000
      [] t = "flush_freq_hom" -> (128 * 8) \div FlushUnit

\* the literal assigned to self.t inside the `if self.zetaQ == True:` block
NormValue(p, t) ==
    CASE t \in {"evoQ", "spectQ", "distQ", "statsQ", "fieldsQ", "field_rho",
                "field_lpQ", "testQ", "m2_effQ", "saveQ"} -> FALSE
      [] t = "superfolderQ" -> TRUE
      [] t = "flush_freq" -> (256 \div FlushUnit) * 120 * 100000
      [] t = "flush_freq_hom" -> (128 * 8) \div FlushUnit

(***************************************************************************)
(* Execution                                                               *)
(***************************************************************************)
\* s with attribute a set to v
SetAttr(s, a, v) == [x \in DOMAIN s \cup {a} |-> IF x = a THEN v ELSE s[x]]

Init ==
    /\ preset \in Presets
    /\ pc = 1
    /\ self = <<>>
    /\ edits = 0
    /\ muts = 0

\* a top-level statement of __init__, run with one of its literals
Assign ==
    /\ pc < Done(preset)
    /\ Prog(preset)[pc].kind = "assign"
    /\ LET st == Prog(preset)[pc]
       IN  \E c \in Alternatives(preset, st.target) :
           /\ c # Shipped(preset, st.target) => edits < MaxEdits
           /\ self' = SetAttr(self, st.target, Value(preset, st.target, self, c))
           /\ edits' = IF c # Shipped(preset, st.target) THEN edits + 1 ELSE edits
    /\ pc' = pc + 1
    /\ UNCHANGED <<preset, muts>>

\* if self.zetaQ == True:
TestZeta ==
    /\ pc < Done(preset)
    /\ Prog(preset)[pc].kind = "if"
    /\ pc' = IF self.zetaQ = TRUE THEN pc + 1 ELSE Done(preset)
    /\ UNCHANGED <<preset, self, edits, muts>>

\* a block whose statements also clear csvQ
NormalizeClearsCsv ==
    /\ pc < Done(preset)
    /\ Prog(preset)[pc].kind = "then"
    /\ self' = SetAttr(SetAttr(self, Prog(preset)[pc].target,
                               NormValue(preset, Prog(preset)[pc].target)),
                       "csvQ", FALSE)
    /\ pc' = pc + 1
    /\ UNCHANGED <<preset, edits, muts>>

\* a statement of the if block
Normalize ==
    /\ pc < Done(preset)
    /\ Prog(preset)[pc].kind = "then"
    /\ self' = SetAttr(self, Prog(preset)[pc].target,
                       NormValue(preset, Prog(preset)[pc].target))
    /\ pc' = pc + 1
    /\ UNCHANGED <<preset, edits, muts>>

\* an assignment that runs the zetaQ block again
MutateRenormalizing(a, v) ==
    /\ pc = Done(preset)
    /\ muts < MaxMutations
    /\ v # self[a]
    /\ LET s1 == SetAttr(self, a, v)
       IN  self' = IF s1.zetaQ
                   THEN [x \in DOMAIN s1 |->
                           IF x \in {"evoQ", "spectQ", "distQ", "statsQ"} THEN FALSE ELSE s1[x]]
                   ELSE s1
    /\ muts' = muts + 1
    /\ UNCHANGED <<preset, pc, edits>>

\* model.<a> = v on a built Model, a one of the flags (assigning the value
\* the flag already has leaves the Model as it is: a stuttering step)
Mutate(a, v) ==
    /\ pc = Done(preset)
    /\ muts < MaxMutations
    /\ v # self[a]
    /\ self' = SetAttr(self, a, v)
    /\ muts' = muts + 1
    /\ UNCHANGED <<preset, pc, edits>>

Next ==
    \/ Assign
    \/ TestZeta
    \/ Normalize
    \/ \E a \in Flags, v \in BOOLEAN : Mutate(a, v)

Spec == Init /\ [][Next]_vars

(***************************************************************************)
(* Properties                                                              *)
(***************************************************************************)
\* __init__ has returned and the Model has not been touched since
Built == pc = Done(preset) /\ muts = 0

RECURSIVE IsPowerOfTwo(_)
IsPowerOfTwo(k) ==
    IF k < 1 THEN FALSE
    ELSE IF k = 1 THEN TRUE
    ELSE k % 2 = 0 /\ IsPowerOfTwo(k \div 2)

\* the coefficient placeholders used in V_list and V_int together
UsedCoefficients(s) == ListPlaceholders(s.V_list, "C") \cup ListPlaceholders(s.V_int, "C")

\* C1: after construction fields0, pis0 and m2_fields all have the length of
\* the list of self-interaction potentials, in every preset.
C1_FieldArity ==
    pc = Done(preset) =>
        /\ Len(self.fields0) = Len(self.pis0)
        /\ Len(self.pis0) = Len(self.m2_fields)
        /\ Len(self.m2_fields) = Len(self.V_list)

\* C2: a Model built with zetaQ True has evoQ, spectQ, statsQ, distQ,
\* field_rho, field_lpQ, testQ and m2_effQ False, superfolderQ True, saveQ
\* False and flush_freq = 256*120*100000, whatever the literals were.
C2_ZetaNormalized ==
    (Built /\ self.zetaQ) =>
        /\ \A a \in {"evoQ", "spectQ", "statsQ", "distQ", "field_rho",
                     "field_lpQ", "testQ", "m2_effQ", "saveQ"} : self[a] = FALSE
        /\ self.superfolderQ = TRUE
        /\ self.flush_freq = ((256 * 120 * 1000) \div FlushUnit) * 100

C2_Witness == Built /\ self.zetaQ /\ edits = MaxEdits /\ preset = "oscillon"

\* C3: the coefficient placeholders used in V_list and V_int are exactly
\* C1 .. C_len(C_coeff), so their number is len(C_coeff).
C3_CoefficientArity ==
    "C_coeff" \in DOMAIN self =>
        /\ Cardinality(UsedCoefficients(self)) = Len(self.C_coeff)
        /\ UsedCoefficients(self) = 1 .. Len(self.C_coeff)

C3_Witness == preset = "oscillon" /\ pc = Done(preset) /\ Cardinality(UsedCoefficients(self)) = 3

\* C4: no Model is built with a lattice size n that is not a power of two
\* (construction fails with InvalidLatticeSize instead).
C4_LatticeSizeChecked == pc = Done(preset) => IsPowerOfTwo(self.n)

\* C5: no Model is built with a time step dtau or dtau_hom that is zero or
\* negative (construction fails with NonPositiveTimeParameter instead).
C5_TimeStepChecked ==
    pc = Done(preset) => Positive(self.dtau) /\ Positive(self.dtau_hom)

\* C6: the chaotic Model has two fields, C_coeff = [m2f1, m2f2, g2] with C1
\* in V_list[0], C2 in V_list[1] and C3 in V_int[0], and
\* q = g2*f10^2/(4*m2f1) > 0.
C6_Chaotic ==
    (preset = "chaotic" /\ pc = Done(preset)) =>
        /\ Len(self.fields0) = 2 /\ Len(self.V_list) = 2 /\ Len(self.V_int) = 1
        /\ Len(self.C_coeff) = 3
        /\ self.C_coeff[1] = self.m2f1
        /\ self.C_coeff[2] = self.m2f2
        /\ self.C_coeff[3] = self.g2
        /\ Placeholders(self.V_list[1], "C") = {1}
        /\ Placeholders(self.V_list[2], "C") = {2}
        /\ Placeholders(self.V_int[1], "C") = {3}
        /\ self.q = Div(Mul(self.g2, Mul(self.f10, self.f10)), Mul(F(4, 0), self.m2f1))
        /\ Positive(self.q)

C6_Witness == preset = "chaotic" /\ pc = Done(preset) /\ self.q.m > 0 /\ self.m2f1 # self.g2

\* C7: the oscillon Model has one self-interaction term, one initial value
\* and one initial derivative, and V_int has exactly two entries, the first
\* using only C2 and the second only C3, both over f1 alone.
C7_Oscillon ==
    (preset = "oscillon" /\ pc = Done(preset)) =>
        /\ Len(self.V_list) = 1 /\ Len(self.fields0) = 1 /\ Len(self.pis0) = 1
        /\ Len(self.V_int) = 2
        /\ Placeholders(self.V_int[1], "C") = {2}
        /\ Placeholders(self.V_int[2], "C") = {3}
        /\ Placeholders(self.V_int[1], "f") = {1}
        /\ Placeholders(self.V_int[2], "f") = {1}

C7_Witness == preset = "oscillon" /\ pc = Done(preset) /\ Len(self.V_int) = 2

\* C8: on a built Model an assignment to a flag changes that flag only; the
\* zetaQ block is not run again.
C8_MutationIsLocal ==
    [][pc = Done(preset) =>
          /\ pc' = pc
          /\ DOMAIN self' = DOMAIN self
          /\ LET changed == {x \in DOMAIN self : self'[x] # self[x]}
             IN  changed \subseteq Flags /\ Cardinality(changed) <= 1]_vars

\* zetaQ set on a Model built as shipped (zetaQ False): evoQ stays True
C8_Witness ==
    /\ pc = Done(preset) /\ edits = 0 /\ muts = 1
    /\ self.zetaQ /\ self.evoQ /\ self.spectQ /\ self.saveQ

\* the attributes the derivation steps assign, in the order of the steps:
\* MPl, mass-squared values, couplings, initial values and derivatives, q,
\* C_coeff
StepsWithQ(p) ==
    << {"MPl"},
       {"m2f1", "m2f2", "m2_fields"},
       IF p = "chaotic" THEN {"g2"} ELSE {"lamb", "g2"},
       IF p = "chaotic" THEN {"f10", "f20", "df1_dt0", "df2_dt0", "fields0", "pis0"}
                        ELSE {"f10", "df1_dt0", "fields0", "pis0"},
       {"q"},
       {"C_coeff"} >>

\* the same without the q step
StepsWithoutQ(p) == [k \in 1 .. 5 |-> IF k < 5 THEN StepsWithQ(p)[k] ELSE {"C_coeff"}]

\* a step has started only if the step before it is complete, and the zetaQ
\* block runs after all of them
InOrder(steps) ==
    /\ \A k \in 1 .. Len(steps) - 1 :
          steps[k + 1] \cap DOMAIN self # {} => steps[k] \subseteq DOMAIN self
    /\ pc >= IfIndex(preset) => \A k \in 1 .. Len(steps) : steps[k] \subseteq DOMAIN self

\* a statement reads only attributes that exist
ReadsAssigned == pc < Done(preset) => Prog(preset)[pc].reads \subseteq DOMAIN self

\* a derived value is assigned once, and once the zetaQ test is reached
\* __init__ runs nothing but the block
OnceAndNormalizationLast(steps) ==
    /\ \A k \in 1 .. Len(steps) : \A a \in steps[k] \cap DOMAIN self :
          a \in DOMAIN self' /\ self'[a] = self[a]
    /\ (pc >= IfIndex(preset) /\ pc < Done(preset)) =>
          (pc' = Done(preset) \/ Prog(preset)[pc'].kind = "then")

\* C9 (as claimed): in both presets the steps MPl, masses, couplings,
\* initial values, q, C_coeff, normalization run once and in this order, each
\* reading only what earlier steps assigned; q is derived before C_coeff in
\* every preset.
C9_OrderWithQ ==
    /\ [](ReadsAssigned /\ InOrder(StepsWithQ(preset)))
    /\ [][OnceAndNormalizationLast(StepsWithQ(preset))]_vars

\* C9 (amended): the steps run once and in this order, each reading only
\* what earlier steps assigned, with the zetaQ block last; the q step, between
\* the initial values and C_coeff, exists in chaotic.py only: oscillon.py
\* never assigns q.
C9_Order ==
    /\ [](/\ ReadsAssigned
          /\ preset = "chaotic" => InOrder(StepsWithQ(preset))
          /\ preset = "oscillon" => InOrder(StepsWithoutQ(preset)) /\ "q" \notin DOMAIN self)
    /\ [][OnceAndNormalizationLast(StepsWithQ(preset))]_vars

C9_Witness == preset = "oscillon" /\ Built /\ self.zetaQ /\ "q" \notin DOMAIN self

\* the attributes the zetaQ block of oscillon.py assigns
BlockTargets ==
    {"evoQ", "spectQ", "distQ", "statsQ", "fieldsQ", "field_rho", "field_lpQ",
     "testQ", "m2_effQ", "flush_freq", "superfolderQ", "saveQ"}

\* from the zetaQ test to the return, attributes outside `targets` keep
\* their values, nothing changes at all when zetaQ is False, and fieldsQ is
\* False at the return when zetaQ is True
BlockFrame(targets) ==
    (pc >= IfIndex(preset) /\ pc < Done(preset)) =>
        /\ DOMAIN self' = DOMAIN self
        /\ \A a \in DOMAIN self \ targets : self'[a] = self[a]
        /\ ~self.zetaQ => self' = self /\ pc' = Done(preset)
        /\ (self.zetaQ /\ pc' = Done(preset)) => self'.fieldsQ = FALSE

\* C10 (as claimed): the block changes the same attributes in both presets;
\* zetaQ, lin_evo, homogenQ, gwsQ, deSitterQ, csvQ, scale, adaptQ, sim_num and
\* flush_freq_hom keep their values.
C10_FrameSameInBoth == [][BlockFrame(BlockTargets)]_vars

\* C10 (amended): as claimed for oscillon.py; the block of chaotic.py also
\* assigns flush_freq_hom = 128*8, all other attributes keep their values.
C10_Frame ==
    [][/\ BlockFrame(IF preset = "chaotic" THEN BlockTargets \cup {"flush_freq_hom"}
                     ELSE BlockTargets)
       /\ (preset = "chaotic" /\ pc >= IfIndex(preset) /\ pc < Done(preset)
              /\ self.zetaQ /\ pc' = Done(preset)) =>
             self'.flush_freq_hom * FlushUnit = 128 * 8]_vars

\* chaotic.py about to overwrite a flush_freq_hom of 128*20
C10_Witness ==
    /\ preset = "chaotic" /\ pc < Done(preset)
    /\ Prog(preset)[pc].kind = "then" /\ Prog(preset)[pc].target = "flush_freq_hom"
    /\ self.flush_freq_hom * FlushUnit = 128 * 20

====
